---- MODULE Spec2Model ----
(***************************************************************************)
(* Model of simple_scheduler.py: the greedy first-fit classroom scheduler. *)
(* One behaviour is one call of schedule_courses() on one input file.      *)
(***************************************************************************)
EXTENDS Integers, Sequences, FiniteSets, TLC

(***************************************************************************)
(* Hardcoded catalogs                                                      *)
(***************************************************************************)
TIME_SLOTS ==
  << <<"Monday", "8 AM - 10 AM">>,    <<"Monday", "10 AM - 12 PM">>,
     <<"Monday", "12 PM - 2 PM">>,    <<"Monday", "2 PM - 4 PM">>,
     <<"Tuesday", "8 AM - 10 AM">>,   <<"Tuesday", "10 AM - 12 PM">>,
     <<"Tuesday", "12 PM - 2 PM">>,   <<"Tuesday", "2 PM - 4 PM">>,
     <<"Wednesday", "8 AM - 10 AM">>, <<"Wednesday", "10 AM - 12 PM">>,
     <<"Thursday", "8 AM - 10 AM">>,  <<"Thursday", "10 AM - 12 PM">>,
     <<"Thursday", "12 PM - 2 PM">>,  <<"Thursday", "2 PM - 4 PM">>,
     <<"Friday", "8 AM - 10 AM">>,    <<"Friday", "10 AM - 12 PM">>,
     <<"Friday", "12 PM - 2 PM">>,    <<"Friday", "2 PM - 4 PM">> >>

CLASSROOMS ==
  << [name |-> "Software Lab",      capacity |-> 90],
     [name |-> "Hardware Lab",      capacity |-> 80],
     [name |-> "CS Lecture Hall 1", capacity |-> 200],
     [name |-> "CS Lecture Hall 2", capacity |-> 150],
     [name |-> "Tutorial Room A",   capacity |-> 50],
     [name |-> "Tutorial Room B",   capacity |-> 50],
     [name |-> "Seminar Room",      capacity |-> 100] >>

(***************************************************************************)
(* Pure helpers                                                            *)
(***************************************************************************)
\* line 69 rounding down
calculate_sessions_needed_Floor(hours_per_week) == hours_per_week \div 2

\* (hours_per_week + 1) // 2 ; Python's // is floor division, as is \div
calculate_sessions_needed(hours_per_week) == (hours_per_week + 1) \div 2

\* sorted(..., key=capacity) is a stable sort: insert r behind every element
\* whose key is not larger
RECURSIVE InsertByCapacity(_, _)
InsertByCapacity(r, s) ==
  IF s = <<>> THEN <<r>>
  ELSE IF s[Len(s)].capacity <= r.capacity THEN Append(s, r)
  ELSE Append(InsertByCapacity(r, SubSeq(s, 1, Len(s) - 1)), s[Len(s)])

RECURSIVE SortedByCapacity(_)
SortedByCapacity(s) ==
  IF s = <<>> THEN <<>>
  ELSE InsertByCapacity(s[Len(s)], SortedByCapacity(SubSeq(s, 1, Len(s) - 1)))

\* line 140 iterating CLASSROOMS as listed, without sorted()
SortedClassrooms_AsListed == CLASSROOMS

SortedClassrooms == SortedByCapacity(CLASSROOMS)

\* the threshold of line 142 lowered to half the enrollment
TooSmall_Half(capacity, enrollment) == 2 * capacity < enrollment

\* room['capacity'] < course['enrollment'] * 0.8 .  The product is a double;
\* for the catalog's capacities and integer enrollments its comparison with
\* an integer capacity agrees with the exact one, 5 * capacity < 4 * enrollment.
TooSmall(capacity, enrollment) == 5 * capacity < 4 * enrollment

\* dict.get(key, default)
Get(d, key, default) == IF key \in DOMAIN d THEN d[key] ELSE default

\* {**course, k1: v1, ...} : the later keys win
Merge(course, extra) == extra @@ course

\* the message of line 117 without the interpolated name
NotFoundReason_NoName(lecturer_name) == "Lecturer not found in system"

NotFoundReason(lecturer_name) ==
  "Lecturer " \o lecturer_name \o " not found in system"

ShortfallReason(assigned_, needed_) ==
  "Could only schedule " \o ToString(assigned_) \o "/" \o ToString(needed_)
    \o " sessions"

\* the message of line 85 cut short
EmptyMessage_Short == "No courses to schedule."

EmptyMessage == "No courses to schedule. Please add courses first."

(***************************************************************************)
(* Inputs: the content of user_input.json                                  *)
(***************************************************************************)
MaxCourses == 2

CourseCodes == << "CSC101", "CSC201", "CSC301", "CSC401" >>
CourseTitles == { "Programming" }
CourseLevels == { 100, 200 }
CourseLecturers == { "Dr. A", "Dr. B" }
\* << hours_per_week, enrollment >>: two sessions in a tutorial room, two in
\* the one hall that is large enough, two that fit no room, and one session
\* in every slot of the week
CourseLoads == { << 3, 40 >>, << 3, 200 >>, << 3, 300 >>, << 36, 40 >> }

\* a course of a lecturer no lecturer list names: it is rejected at line 114,
\* before its level or enrollment is looked at, so one shape of it is enough
GhostCourse(k) ==
  [ course_code |-> CourseCodes[k], title |-> "Programming", level |-> 100,
    lecturer |-> "Dr. Ghost", hours_per_week |-> 3, enrollment |-> 40 ]

\* course k of the file: codes are unique identifiers, one per position
CourseInputs(k) ==
  { [ course_code |-> CourseCodes[k], title |-> t, level |-> lv,
      lecturer |-> lec, hours_per_week |-> ld[1], enrollment |-> ld[2] ] :
      t \in CourseTitles, lv \in CourseLevels, lec \in CourseLecturers,
      ld \in CourseLoads }
    \cup { GhostCourse(k) }

RECURSIVE CourseLists(_)
CourseLists(n) ==
  IF n = 0 THEN { << >> }
  ELSE { Append(s, c) : s \in CourseLists(n - 1), c \in CourseInputs(n) }

\* weekly budgets: none, odd, and enough for every slot of the week
LecturerHours == { 0, 3, 36 }
LecturerInputs ==
  { << >> } \cup
  { << [name |-> "Dr. A", hours_per_week |-> a],
       [name |-> "Dr. B", hours_per_week |-> 36] >> : a \in LecturerHours }

VARIABLES
  courses,          \* data['courses']
  lecturers_data,   \* data['lecturers']
  pc,               \* position in schedule_courses
  lecturers,        \* name -> [hours_available, hours_used]
  room_usage,       \* set of <<room, day, time>>
  lecturer_usage,   \* set of <<lecturer, day, time>>
  level_usage,      \* set of <<level, day, time>>
  schedule,
  unscheduled,
  ci,               \* index of the course of the outer loop
  si,               \* index of the slot of the inner loop
  sessions_needed,
  sessions_assigned,
  result,           \* the returned dict, NoResult before the return
  calls,            \* calls of schedule_courses begun by the script
  first_result,     \* what the first call returned, once a second has begun
  calc              \* a call of calculate_sessions_needed on its own

vars == << courses, lecturers_data, pc, lecturers, room_usage, lecturer_usage,
           level_usage, schedule, unscheduled, ci, si, sessions_needed,
           sessions_assigned, result, calls, first_result, calc >>

inputs == << courses, lecturers_data >>
trackers == << room_usage, lecturer_usage, level_usage >>
callers == << calls, first_result, calc >>

NoResult == [returned |-> FALSE]
NoCalc == [called |-> FALSE, hours_per_week |-> 0]

Init ==
  /\ courses \in UNION { CourseLists(n) : n \in 0..MaxCourses }
  /\ lecturers_data \in LecturerInputs
  /\ pc = "load"
  /\ lecturers = << >>
  /\ room_usage = {}
  /\ lecturer_usage = {}
  /\ level_usage = {}
  /\ schedule = << >>
  /\ unscheduled = << >>
  /\ ci = 0
  /\ si = 0
  /\ sessions_needed = 0
  /\ sessions_assigned = 0
  /\ result = NoResult
  /\ calls = 1
  /\ first_result = NoResult
  /\ calc = NoCalc

(***************************************************************************)
(* schedule_courses                                                        *)
(***************************************************************************)
\* lines 88-94: a later entry of the same name replaces an earlier one
BuildLookup(data) ==
  [ nm \in { data[i].name : i \in DOMAIN data } |->
      LET last == CHOOSE i \in DOMAIN data :
                    /\ data[i].name = nm
                    /\ \A j \in DOMAIN data : data[j].name = nm => j <= i
      IN [hours_available |-> data[last].hours_per_week, hours_used |-> 0] ]

\* lines 81-86: if not courses: return ...
ReturnEmpty ==
  /\ pc = "load"
  /\ courses = << >>
  /\ result' = [returned |-> TRUE, schedule |-> << >>, unscheduled |-> << >>,
                message |-> EmptyMessage]
  /\ pc' = "done"
  /\ UNCHANGED << inputs, callers,
                  lecturers, trackers, schedule, unscheduled, ci, si,
                  sessions_needed, sessions_assigned >>

\* lines 97-99 as if room_usage were a module-level dict, built once
Setup_KeepsRoomUsage ==
  /\ pc = "load"
  /\ courses # << >>
  /\ lecturers' = BuildLookup(lecturers_data)
  /\ lecturer_usage' = {}
  /\ level_usage' = {}
  /\ schedule' = << >>
  /\ unscheduled' = << >>
  /\ ci' = 1
  /\ pc' = "course"
  /\ UNCHANGED << inputs, callers, room_usage, si, sessions_needed,
                  sessions_assigned, result >>

\* lines 88-102
Setup ==
  /\ pc = "load"
  /\ courses # << >>
  /\ lecturers' = BuildLookup(lecturers_data)
  /\ room_usage' = {}
  /\ lecturer_usage' = {}
  /\ level_usage' = {}
  /\ schedule' = << >>
  /\ unscheduled' = << >>
  /\ ci' = 1
  /\ pc' = "course"
  /\ UNCHANGED << inputs, callers,
                  si, sessions_needed, sessions_assigned, result >>

\* lines 105-119 with the level booked before the lecturer is looked up
RejectCourse_BooksLevel ==
  /\ pc = "course"
  /\ ci <= Len(courses)
  /\ LET course == courses[ci] IN
       /\ course.lecturer \notin DOMAIN lecturers
       /\ sessions_needed' = calculate_sessions_needed(course.hours_per_week)
       /\ sessions_assigned' = 0
       /\ unscheduled' = Append(unscheduled,
             Merge(course, [reason |-> NotFoundReason(course.lecturer)]))
       /\ level_usage' = level_usage \cup
             { << course.level, TIME_SLOTS[1][1], TIME_SLOTS[1][2] >> }
  /\ ci' = ci + 1
  /\ UNCHANGED << inputs, callers, pc, lecturers, room_usage, lecturer_usage,
                  schedule, si, result >>

\* lines 105-119: the course's lecturer is not in the lookup
RejectCourse ==
  /\ pc = "course"
  /\ ci <= Len(courses)
  /\ LET course == courses[ci] IN
       /\ course.lecturer \notin DOMAIN lecturers
       /\ sessions_needed' = calculate_sessions_needed(course.hours_per_week)
       /\ sessions_assigned' = 0
       /\ unscheduled' = Append(unscheduled,
             Merge(course, [reason |-> NotFoundReason(course.lecturer)]))
  /\ ci' = ci + 1
  /\ UNCHANGED << inputs, callers,
                  pc, lecturers, trackers, schedule, si, result >>

\* lines 105-111, 122: the lecturer is known, the slot scan starts
StartCourse ==
  /\ pc = "course"
  /\ ci <= Len(courses)
  /\ LET course == courses[ci] IN
       /\ course.lecturer \in DOMAIN lecturers
       /\ sessions_needed' = calculate_sessions_needed(course.hours_per_week)
       /\ sessions_assigned' = 0
  /\ si' = 1
  /\ pc' = "slots"
  /\ UNCHANGED << inputs, callers,
                  lecturers, trackers, schedule, unscheduled, ci,
                  result >>

\* the break of lines 123-124 taken one session late
Enough_Late(assigned_, needed_) == assigned_ > needed_

\* lines 123-124: if sessions_assigned >= sessions_needed: break
Enough(assigned_, needed_) == assigned_ >= needed_

\* the loop of line 122 stopping one slot short of the catalog
InSlot_SkipsLast ==
  /\ pc = "slots"
  /\ si < Len(TIME_SLOTS)
  /\ ~Enough(sessions_assigned, sessions_needed)

\* lines 122-124: the scan is inside the loop body for slot si
InSlot ==
  /\ pc = "slots"
  /\ si <= Len(TIME_SLOTS)
  /\ ~Enough(sessions_assigned, sessions_needed)

\* RoomFits without the test of line 146
RoomFits_IgnoringUsage(room, course, day, time, usage) ==
  ~TooSmall(room.capacity, course.enrollment)

\* lines 140-147: the rooms, in ascending capacity, that fit and are free
RoomFits(room, course, day, time, usage) ==
  /\ ~TooSmall(room.capacity, course.enrollment)
  /\ << room.name, day, time >> \notin usage

SuitableRooms(course, day, time, usage) ==
  { r \in DOMAIN SortedClassrooms :
      RoomFits(SortedClassrooms[r], course, day, time, usage) }

\* the loop of line 140 without its break: the last room that fits wins
FirstRoom_Last(course, day, time, usage) ==
  LET ok == SuitableRooms(course, day, time, usage)
  IN SortedClassrooms[CHOOSE r \in ok : \A q \in ok : r >= q]

\* the first room of the loop of line 140 that reaches line 149
FirstRoom(course, day, time, usage) ==
  LET ok == SuitableRooms(course, day, time, usage)
  IN SortedClassrooms[CHOOSE r \in ok : \A q \in ok : r <= q]

SkipSlot ==
  /\ si' = si + 1
  /\ UNCHANGED << inputs, callers,
                  pc, lecturers, trackers, schedule, unscheduled, ci,
                  sessions_needed, sessions_assigned, result >>

\* line 127 with > for >=
Exhausted_Strict(l) == l.hours_used > l.hours_available

\* line 127: hours_used >= hours_available
Exhausted(l) == l.hours_used >= l.hours_available

\* line 131 looking the lecturer up under another key
LecturerIsBusy_WrongKey(usage, lecturer_name, day, time) ==
  << lecturer_name, time, day >> \in usage

\* line 131
LecturerIsBusy(usage, lecturer_name, day, time) ==
  << lecturer_name, day, time >> \in usage

\* line 135 with the test dropped
LevelIsBusy_Never(usage, level, day, time) == FALSE

\* line 135
LevelIsBusy(usage, level, day, time) == << level, day, time >> \in usage

\* lines 126-128
BudgetExhausted ==
  /\ InSlot
  /\ Exhausted(lecturers[courses[ci].lecturer])
  /\ SkipSlot

HasBudget == ~Exhausted(lecturers[courses[ci].lecturer])

\* lines 130-132
LecturerBusy ==
  /\ InSlot
  /\ HasBudget
  /\ LecturerIsBusy(lecturer_usage, courses[ci].lecturer,
                    TIME_SLOTS[si][1], TIME_SLOTS[si][2])
  /\ SkipSlot

\* lines 134-136
LevelBusy ==
  /\ InSlot
  /\ HasBudget
  /\ ~LecturerIsBusy(lecturer_usage, courses[ci].lecturer,
                     TIME_SLOTS[si][1], TIME_SLOTS[si][2])
  /\ LevelIsBusy(level_usage, courses[ci].level,
                 TIME_SLOTS[si][1], TIME_SLOTS[si][2])
  /\ SkipSlot

SlotOpen ==
  /\ InSlot
  /\ HasBudget
  /\ ~LecturerIsBusy(lecturer_usage, courses[ci].lecturer,
                     TIME_SLOTS[si][1], TIME_SLOTS[si][2])
  /\ ~LevelIsBusy(level_usage, courses[ci].level,
                  TIME_SLOTS[si][1], TIME_SLOTS[si][2])

\* lines 139-147, 172-174: no room passes both tests
NoRoom ==
  /\ SlotOpen
  /\ SuitableRooms(courses[ci], TIME_SLOTS[si][1], TIME_SLOTS[si][2],
                   room_usage) = {}
  /\ SkipSlot

\* lines 149-170 without line 166: the hours are never counted
Assign_HoursNotCounted ==
  /\ SlotOpen
  /\ LET course == courses[ci]
         day == TIME_SLOTS[si][1]
         time == TIME_SLOTS[si][2]
         lecturer_name == course.lecturer
         level == course.level
     IN
       /\ SuitableRooms(course, day, time, room_usage) # {}
       /\ LET room == FirstRoom(course, day, time, room_usage) IN
            /\ schedule' = Append(schedule,
                  [course |-> course.course_code, title |-> course.title,
                   level |-> level, lecturer |-> lecturer_name,
                   room |-> room.name, day |-> day, time |-> time,
                   capacity |-> room.capacity,
                   enrollment |-> course.enrollment])
            /\ room_usage' = room_usage \cup { << room.name, day, time >> }
       /\ lecturer_usage' = lecturer_usage \cup { << lecturer_name, day, time >> }
       /\ level_usage' = level_usage \cup { << level, day, time >> }
       /\ lecturers' = lecturers
  /\ sessions_assigned' = sessions_assigned + 1
  /\ si' = si + 1
  /\ UNCHANGED << inputs, callers,
                  pc, unscheduled, ci, sessions_needed, result >>

\* lines 149-170
Assign ==
  /\ SlotOpen
  /\ LET course == courses[ci]
         day == TIME_SLOTS[si][1]
         time == TIME_SLOTS[si][2]
         lecturer_name == course.lecturer
         level == course.level
     IN
       /\ SuitableRooms(course, day, time, room_usage) # {}
       /\ LET room == FirstRoom(course, day, time, room_usage) IN
            /\ schedule' = Append(schedule,
                  [course |-> course.course_code, title |-> course.title,
                   level |-> level, lecturer |-> lecturer_name,
                   room |-> room.name, day |-> day, time |-> time,
                   capacity |-> room.capacity,
                   enrollment |-> course.enrollment])
            /\ room_usage' = room_usage \cup { << room.name, day, time >> }
       /\ lecturer_usage' = lecturer_usage \cup { << lecturer_name, day, time >> }
       /\ level_usage' = level_usage \cup { << level, day, time >> }
       /\ lecturers' = [lecturers EXCEPT ![lecturer_name].hours_used = @ + 2]
  /\ sessions_assigned' = sessions_assigned + 1
  /\ si' = si + 1
  /\ UNCHANGED << inputs, callers,
                  pc, unscheduled, ci, sessions_needed, result >>

\* line 176 reporting only the courses that got no session at all
Short_OnlyEmpty(assigned_, needed_) == assigned_ = 0 /\ assigned_ < needed_

\* line 176 with <= for <
Short_OrEqual(assigned_, needed_) == assigned_ <= needed_

\* line 176: if sessions_assigned < sessions_needed
Short(assigned_, needed_) == assigned_ < needed_

\* lines 122-124, 176-185: the scan ended, by break or by exhaustion
EndCourse ==
  /\ pc = "slots"
  /\ ~InSlot
  /\ unscheduled' =
       IF Short(sessions_assigned, sessions_needed)
       THEN Append(unscheduled,
              Merge(courses[ci],
                    [sessions_assigned |-> sessions_assigned,
                     sessions_needed |-> sessions_needed,
                     reason |-> ShortfallReason(sessions_assigned,
                                                sessions_needed)]))
       ELSE unscheduled
  /\ ci' = ci + 1
  /\ pc' = "course"
  /\ UNCHANGED << inputs, callers,
                  lecturers, trackers, schedule, si, sessions_needed,
                  sessions_assigned, result >>

\* line 189
ScheduledCourses(cs, sched) ==
  Cardinality({ i \in DOMAIN cs :
                  \E k \in DOMAIN sched : sched[k].course = cs[i].course_code })

\* line 196: round(scheduled / total * 100, 1), kept in tenths of a percent
\* (no input of the sizes modelled lands on a rounding tie)
SuccessRateTenths(scheduled_courses, total_courses) ==
  IF total_courses > 0
  THEN (2000 * scheduled_courses + total_courses) \div (2 * total_courses)
  ELSE 0

\* lines 187-198
Statistics(cs, sched, unsched) ==
  LET total_courses == Len(cs)
      scheduled_courses == ScheduledCourses(cs, sched)
      partial == { i \in DOMAIN unsched :
                     Get(unsched[i], "sessions_assigned", 0) > 0 }
      zero == { i \in DOMAIN unsched :
                  Get(unsched[i], "sessions_assigned", 0) = 0 }
  IN [ total_courses |-> total_courses,
       fully_scheduled |-> scheduled_courses - Len(unsched),
       partially_scheduled |-> Cardinality(partial),
       unscheduled |-> Cardinality(zero),
       success_rate_tenths |-> SuccessRateTenths(scheduled_courses,
                                                 total_courses),
       total_sessions |-> Len(sched) ]

\* lines 187-205
Return ==
  /\ pc = "course"
  /\ ci > Len(courses)
  /\ result' = [ returned |-> TRUE,
                 schedule |-> schedule,
                 unscheduled |-> unscheduled,
                 statistics |-> Statistics(courses, schedule, unscheduled),
                 lecturer_workload |->
                   [ nm \in DOMAIN lecturers |-> lecturers[nm].hours_used ] ]
  /\ pc' = "done"
  /\ UNCHANGED << inputs, callers,
                  lecturers, trackers, schedule, unscheduled, ci, si,
                  sessions_needed, sessions_assigned >>

Next ==
  \/ ReturnEmpty
  \/ Setup
  \/ RejectCourse
  \/ StartCourse
  \/ BudgetExhausted
  \/ LecturerBusy
  \/ LevelBusy
  \/ NoRoom
  \/ Assign
  \/ EndCourse
  \/ Return

Spec == Init /\ [][Next]_vars

(***************************************************************************)
(* The callers of schedule_courses and of calculate_sessions_needed        *)
(***************************************************************************)
\* lines 271-273, 265: after print_schedule, save_schedule_to_file calls
\* schedule_courses again, on the same user_input.json
SecondCall ==
  /\ pc = "done"
  /\ calls = 1
  /\ first_result' = result
  /\ calls' = 2
  /\ result' = NoResult
  /\ pc' = "load"
  /\ UNCHANGED << inputs, calc, lecturers, trackers, schedule, unscheduled,
                  ci, si, sessions_needed, sessions_assigned >>

NextTwice ==
  \/ Next
  \/ SecondCall

SpecTwice == Init /\ [][NextTwice]_vars

\* lines 58-64, 78: the script is run again after the courses of lecturers
\* the list does not name were taken out of user_input.json
CallWithoutRejected ==
  /\ pc = "done"
  /\ calls = 1
  /\ LET names == { lecturers_data[i].name : i \in DOMAIN lecturers_data }
         Named(c) == c.lecturer \in names
     IN /\ \E k \in DOMAIN courses : ~Named(courses[k])
        /\ courses' = SelectSeq(courses, Named)
  /\ first_result' = result
  /\ calls' = 2
  /\ result' = NoResult
  /\ pc' = "load"
  /\ UNCHANGED << lecturers_data, calc, lecturers, trackers, schedule,
                  unscheduled, ci, si, sessions_needed, sessions_assigned >>

NextWithout ==
  \/ Next
  \/ CallWithoutRejected

SpecWithout == Init /\ [][NextWithout]_vars

MaxHours == 60

\* no call of schedule_courses: only calculate_sessions_needed is called
InitCalc ==
  /\ courses = << >>
  /\ lecturers_data = << >>
  /\ pc = "idle"
  /\ lecturers = << >>
  /\ room_usage = {}
  /\ lecturer_usage = {}
  /\ level_usage = {}
  /\ schedule = << >>
  /\ unscheduled = << >>
  /\ ci = 0
  /\ si = 0
  /\ sessions_needed = 0
  /\ sessions_assigned = 0
  /\ result = NoResult
  /\ calls = 0
  /\ first_result = NoResult
  /\ calc \in { [called |-> FALSE, hours_per_week |-> h] : h \in 0..MaxHours }

\* lines 67-69
Calculate ==
  /\ pc = "idle"
  /\ ~calc.called
  /\ calc' = [called |-> TRUE, hours_per_week |-> calc.hours_per_week,
              value |-> calculate_sessions_needed(calc.hours_per_week)]
  /\ UNCHANGED << inputs, pc, lecturers, trackers, schedule, unscheduled, ci,
                  si, sessions_needed, sessions_assigned, result, calls,
                  first_result >>

NextCalc == Calculate

SpecCalc == InitCalc /\ [][NextCalc]_vars

(***************************************************************************)
(* Properties                                                              *)
(***************************************************************************)
Returned == result.returned
Scheduled == Returned /\ "statistics" \in DOMAIN result

\* no two distinct entries of a schedule agree on the key
\* (as many different keys as entries)
NoClash(keys) ==
  Cardinality({ keys[i] : i \in DOMAIN keys }) = Len(keys)

RoomKeys(sched) ==
  [ i \in DOMAIN sched |-> << sched[i].room, sched[i].day, sched[i].time >> ]
LecturerKeys(sched) ==
  [ i \in DOMAIN sched |-> << sched[i].lecturer, sched[i].day, sched[i].time >> ]
LevelKeys(sched) ==
  [ i \in DOMAIN sched |-> << sched[i].level, sched[i].day, sched[i].time >> ]
SlotKey(e) == << e.day, e.time >>

\* C1: at every point of a run and in the returned output, no two distinct
\* entries of schedule have the same (room, day, time).
C1_NoRoomClash ==
  /\ NoClash(RoomKeys(schedule))
  /\ Returned => NoClash(RoomKeys(result.schedule))

\* two sessions share a slot, and the later one, of the same enrollment, was
\* moved to another room
C1_Witness ==
  /\ Scheduled
  /\ \E i, j \in DOMAIN result.schedule :
       /\ i < j
       /\ SlotKey(result.schedule[i]) = SlotKey(result.schedule[j])
       /\ result.schedule[i].enrollment = result.schedule[j].enrollment
       /\ result.schedule[i].room # result.schedule[j].room

\* C2: at every point of a run and in the returned output, no two distinct
\* entries of schedule have the same (lecturer, day, time), also when one
\* lecturer teaches courses of different levels.
C2_NoLecturerClash ==
  /\ NoClash(LecturerKeys(schedule))
  /\ Returned => NoClash(LecturerKeys(result.schedule))

\* one lecturer holds sessions of two courses of different levels
C2_Witness ==
  /\ Scheduled
  /\ \E i, j \in DOMAIN result.schedule :
       /\ result.schedule[i].lecturer = result.schedule[j].lecturer
       /\ result.schedule[i].course # result.schedule[j].course
       /\ result.schedule[i].level # result.schedule[j].level

\* C3: at every point of a run and in the returned output, no two distinct
\* entries of schedule have the same (level, day, time), whatever their
\* lecturers and rooms.
C3_NoLevelClash ==
  /\ NoClash(LevelKeys(schedule))
  /\ Returned => NoClash(LevelKeys(result.schedule))

\* two courses of one level, with different lecturers, both hold sessions
C3_Witness ==
  /\ Scheduled
  /\ \E i, j \in DOMAIN result.schedule :
       /\ result.schedule[i].level = result.schedule[j].level
       /\ result.schedule[i].course # result.schedule[j].course
       /\ result.schedule[i].lecturer # result.schedule[j].lecturer

\* C4: for every lecturer and every weekly budget hours_available, even or
\* odd, hours_used never exceeds hours_available at any point of a run, and
\* the returned lecturer_workload is at most hours_available.
C4_HoursWithinBudget ==
  /\ \A nm \in DOMAIN lecturers :
       lecturers[nm].hours_used <= lecturers[nm].hours_available
  /\ Scheduled =>
       \A nm \in DOMAIN result.lecturer_workload :
         result.lecturer_workload[nm] <= lecturers[nm].hours_available

\* the classroom of the catalog with a name, the course of the input with a code
RoomNamed(name) ==
  CLASSROOMS[CHOOSE r \in DOMAIN CLASSROOMS : CLASSROOMS[r].name = name]
CourseCoded(code) ==
  courses[CHOOSE k \in DOMAIN courses : courses[k].course_code = code]

LargeEnough(sched) ==
  \A i \in DOMAIN sched :
    5 * RoomNamed(sched[i].room).capacity
      >= 4 * CourseCoded(sched[i].course).enrollment

\* C5: every entry of schedule has capacity >= 0.8 x enrollment, that is
\* 5 x capacity >= 4 x enrollment, for the capacity of the entry's room in
\* the catalog and the enrollment of the entry's course.
C5_CapacityThreshold ==
  /\ LargeEnough(schedule)
  /\ Returned => LargeEnough(result.schedule)

\* a course that only the largest hall can hold got a session, in that hall
C5_Witness ==
  /\ Scheduled
  /\ \E i \in DOMAIN result.schedule :
       /\ 5 * 150 < 4 * result.schedule[i].enrollment
       /\ result.schedule[i].room = "CS Lecture Hall 1"

\* the names of the lecturer list, the entries and records of one course
KnownLecturers == { lecturers_data[i].name : i \in DOMAIN lecturers_data }
EntriesOf(sched, code) == { i \in DOMAIN sched : sched[i].course = code }
RecordsOf(unsched, code) ==
  { i \in DOMAIN unsched : unsched[i].course_code = code }

\* ceil(h / 2): the least n with 2 n >= h
CeilHalf(h) == CHOOSE n \in 0..h : 2 * n >= h /\ (n = 0 \/ 2 * (n - 1) < h)

\* C6: for a course whose lecturer is not in the lecturer list, the returned
\* output has exactly one unscheduled record for it, with reason
\* "Lecturer <name> not found in system" and no session assigned, and no
\* entry of schedule carries its code.
C6_UnknownLecturerRejected ==
  Scheduled =>
    \A k \in DOMAIN courses :
      courses[k].lecturer \notin KnownLecturers =>
        LET recs == RecordsOf(result.unscheduled, courses[k].course_code) IN
          /\ Cardinality(recs) = 1
          /\ \A i \in recs :
               /\ result.unscheduled[i].reason =
                    "Lecturer " \o courses[k].lecturer
                      \o " not found in system"
               /\ Get(result.unscheduled[i], "sessions_assigned", 0) = 0
          /\ EntriesOf(result.schedule, courses[k].course_code) = {}

\* a run with a rejected course that also placed sessions of another course
C6_Witness ==
  /\ Scheduled
  /\ \E k \in DOMAIN courses : courses[k].lecturer \notin KnownLecturers
  /\ result.schedule # << >>

\* C7: for every course, 0 <= sessions_assigned <= sessions_needed while it
\* is processed and at the end of the run, and at no time does schedule hold
\* more than ceil(hours_per_week / 2) entries with its code.
C7_SessionsWithinNeed ==
  /\ 0 <= sessions_assigned
  /\ sessions_assigned <= sessions_needed
  /\ \A k \in DOMAIN courses :
       /\ Cardinality(EntriesOf(schedule, courses[k].course_code))
            <= CeilHalf(courses[k].hours_per_week)
       /\ Returned =>
            Cardinality(EntriesOf(result.schedule, courses[k].course_code))
              <= CeilHalf(courses[k].hours_per_week)

\* the scan of a course stopped with all its sessions placed and slots left
C7_Witness ==
  /\ pc = "slots"
  /\ si <= Len(TIME_SLOTS)
  /\ sessions_assigned = sessions_needed
  /\ Cardinality(EntriesOf(schedule, courses[ci].course_code))
       = CeilHalf(courses[ci].hours_per_week)
  /\ sessions_needed > 0

\* C8: for a course whose lecturer is known, the returned unscheduled list
\* has a record for it exactly when it got fewer sessions than it needs, and
\* then only one; the record's sessions_assigned is the number of its
\* entries, which are still in schedule, and its reason is
\* "Could only schedule X/Y sessions", X assigned and Y needed.
C8_ShortfallRecorded ==
  Scheduled =>
    \A k \in DOMAIN courses :
      courses[k].lecturer \in KnownLecturers =>
        LET code == courses[k].course_code
            got == Cardinality(EntriesOf(result.schedule, code))
            need == CeilHalf(courses[k].hours_per_week)
            recs == RecordsOf(result.unscheduled, code)
        IN /\ Cardinality(recs) = IF got < need THEN 1 ELSE 0
           /\ \A i \in recs :
                /\ "sessions_assigned" \in DOMAIN result.unscheduled[i]
                /\ "sessions_needed" \in DOMAIN result.unscheduled[i]
                /\ result.unscheduled[i].sessions_assigned = got
                /\ result.unscheduled[i].sessions_needed = need
                /\ result.unscheduled[i].reason =
                     "Could only schedule " \o ToString(got) \o "/"
                       \o ToString(need) \o " sessions"

\* a course of a known lecturer kept some of its sessions and is reported
C8_Witness ==
  /\ Scheduled
  /\ \E i \in DOMAIN result.unscheduled :
       /\ Get(result.unscheduled[i], "sessions_assigned", 0) > 0
       /\ EntriesOf(result.schedule, result.unscheduled[i].course_code) # {}

CourseFields ==
  { "course_code", "title", "level", "lecturer", "hours_per_week",
    "enrollment" }

WellFormed(unsched) ==
  \A i \in DOMAIN unsched :
    /\ CourseFields \cup { "sessions_assigned", "sessions_needed", "reason" }
         \subseteq DOMAIN unsched[i]
    /\ \E k \in DOMAIN courses :
         \A fld \in CourseFields : unsched[i][fld] = courses[k][fld]

\* C9: every record of unscheduled, whatever the cause, carries the fields
\* of its course and a sessions_assigned, a sessions_needed and a reason.
C9_RecordShape ==
  /\ WellFormed(unscheduled)
  /\ Returned => WellFormed(result.unscheduled)

\* the courses that got every session they need
FullyScheduled ==
  { k \in DOMAIN courses :
      Cardinality(EntriesOf(result.schedule, courses[k].course_code))
        = CeilHalf(courses[k].hours_per_week) }

\* C10: with hours_per_week >= 1 and unique codes, statistics.fully_scheduled
\* is the number of courses that got all the sessions they need, so that
\* fully_scheduled + partially_scheduled + unscheduled = total_courses and
\* fully_scheduled >= 0.
C10_FullyScheduledCount ==
  (Scheduled /\ \A k \in DOMAIN courses : courses[k].hours_per_week >= 1) =>
    LET st == result.statistics IN
      /\ st.fully_scheduled = Cardinality(FullyScheduled)
      /\ st.fully_scheduled + st.partially_scheduled + st.unscheduled
           = st.total_courses
      /\ st.fully_scheduled >= 0

\* C11: two calls of schedule_courses on the same input return the same
\* output: the same schedule entries and unscheduled records in the same
\* order, the same statistics and lecturer_workload; nothing of the first
\* call reaches the second.
C11_SecondCallSame ==
  (calls = 2 /\ Returned) => result = first_result

\* the second call returned, with sessions placed and courses reported
C11_Witness ==
  /\ calls = 2
  /\ Scheduled
  /\ result.schedule # << >>
  /\ result.unscheduled # << >>

\* C12: calculate_sessions_needed(h) is ceil(h / 2) for every integer
\* h >= 0 (0 -> 0, 3 -> 2, 4 -> 2, 5 -> 3).
C12_SessionsNeededIsCeil ==
  calc.called => calc.value = CeilHalf(calc.hours_per_week)

\* the call with an odd number of hours, 5, returned 3
C12_Witness ==
  /\ calc.called
  /\ calc.hours_per_week = 5
  /\ calc.value = 3

\* the weekly budget the lecturer list gives a name (its last entry counts)
BudgetOf(nm) ==
  lecturers_data[CHOOSE i \in DOMAIN lecturers_data :
                   /\ lecturers_data[i].name = nm
                   /\ \A j \in DOMAIN lecturers_data :
                        lecturers_data[j].name = nm => j <= i].hours_per_week

\* the classrooms of the catalog that can hold an enrollment
RoomsHolding(enrollment) ==
  { r \in DOMAIN CLASSROOMS : 5 * CLASSROOMS[r].capacity >= 4 * enrollment }

\* the first course of the input can be served in full at once
FirstCourseServable ==
  /\ courses # << >>
  /\ courses[1].lecturer \in KnownLecturers
  /\ BudgetOf(courses[1].lecturer) >= 2 * CeilHalf(courses[1].hours_per_week)
  /\ CeilHalf(courses[1].hours_per_week) <= Len(TIME_SLOTS)
  /\ RoomsHolding(courses[1].enrollment) # {}

\* C13: if the first course has a known lecturer with hours_available >=
\* 2 x needed, needs no more sessions than there are slots and fits some
\* classroom, it gets exactly its needed sessions, in the first slots of
\* the catalog in order, each in a classroom of the least capacity that
\* holds it, and no unscheduled record.
C13_FirstCourseFirstFit ==
  (Scheduled /\ FirstCourseServable) =>
    LET c == courses[1]
        need == CeilHalf(c.hours_per_week)
    IN /\ EntriesOf(result.schedule, c.course_code) = 1..need
       /\ \A i \in 1..need :
            /\ result.schedule[i].day = TIME_SLOTS[i][1]
            /\ result.schedule[i].time = TIME_SLOTS[i][2]
            /\ \E r \in RoomsHolding(c.enrollment) :
                 /\ CLASSROOMS[r].name = result.schedule[i].room
                 /\ \A q \in RoomsHolding(c.enrollment) :
                      CLASSROOMS[r].capacity <= CLASSROOMS[q].capacity
       /\ RecordsOf(result.unscheduled, c.course_code) = {}

\* a servable first course filled every slot of the week, another followed
C13_Witness ==
  /\ Scheduled
  /\ FirstCourseServable
  /\ CeilHalf(courses[1].hours_per_week) = Len(TIME_SLOTS)
  /\ Len(result.schedule) >= Len(TIME_SLOTS)
  /\ Len(courses) > 1

\* the sessions the first two courses ask of a lecturer
AskedOf(nm) ==
  (IF courses[1].lecturer = nm
   THEN CeilHalf(courses[1].hours_per_week) ELSE 0)
  + (IF courses[2].lecturer = nm
     THEN CeilHalf(courses[2].hours_per_week) ELSE 0)

\* the first two courses are of one level, their lecturers are known and
\* have the budget for all they are asked, both fit a classroom, the first
\* fits the week and the two together do not
TwoCoursesOneWeek ==
  /\ Len(courses) >= 2
  /\ courses[1].level = courses[2].level
  /\ \A k \in 1..2 :
       /\ courses[k].lecturer \in KnownLecturers
       /\ BudgetOf(courses[k].lecturer) >= 2 * AskedOf(courses[k].lecturer)
       /\ RoomsHolding(courses[k].enrollment) # {}
  /\ CeilHalf(courses[1].hours_per_week) <= Len(TIME_SLOTS)
  /\ CeilHalf(courses[1].hours_per_week)
       + CeilHalf(courses[2].hours_per_week) > Len(TIME_SLOTS)

\* C14: courses are served in input order: of two such courses the first
\* gets its n1 sessions and no unscheduled record, the second ends with
\* S - n1 sessions, fewer than it needs, and one unscheduled record that
\* says so (S the number of slots of the catalog).
C14_InputOrderPriority ==
  (Scheduled /\ TwoCoursesOneWeek) =>
    LET n1 == CeilHalf(courses[1].hours_per_week)
        n2 == CeilHalf(courses[2].hours_per_week)
        left == Len(TIME_SLOTS) - n1
        recs == RecordsOf(result.unscheduled, courses[2].course_code)
    IN /\ Cardinality(EntriesOf(result.schedule, courses[1].course_code)) = n1
       /\ RecordsOf(result.unscheduled, courses[1].course_code) = {}
       /\ Cardinality(EntriesOf(result.schedule, courses[2].course_code))
            = left
       /\ left < n2
       /\ Cardinality(recs) = 1
       /\ \A i \in recs :
            /\ Get(result.unscheduled[i], "sessions_assigned", -1) = left
            /\ Get(result.unscheduled[i], "sessions_needed", -1) = n2
            /\ result.unscheduled[i].reason =
                 "Could only schedule " \o ToString(left) \o "/"
                   \o ToString(n2) \o " sessions"

\* the second of two such courses got the slots the first left, not none
C14_Witness ==
  /\ Scheduled
  /\ TwoCoursesOneWeek
  /\ EntriesOf(result.schedule, courses[2].course_code) # {}
  /\ RecordsOf(result.unscheduled, courses[2].course_code) # {}

\* C15: with an empty course list, whatever the lecturer list, the call
\* goes straight to its return, and returns an empty schedule, an empty
\* unscheduled list and the message "No courses to schedule. Please add
\* courses first."
C15_EmptyInput ==
  courses = << >> =>
    /\ pc \in { "load", "done" }
    /\ pc = "done" =>
         /\ Returned
         /\ result.schedule = << >>
         /\ result.unscheduled = << >>
         /\ Get(result, "message", "") =
              "No courses to schedule. Please add courses first."

\* the call returned for no course and a list of two lecturers
C15_Witness ==
  /\ courses = << >>
  /\ Len(lecturers_data) = 2
  /\ pc = "done"
  /\ Returned

\* a step appended one entry to schedule
Assigned == Len(schedule') = Len(schedule) + 1
NewEntry == schedule'[Len(schedule')]

\* the classrooms that hold the enrollment and are free at (day, time)
FreeRoomsHolding(enrollment, day, time) ==
  { r \in RoomsHolding(enrollment) :
      << CLASSROOMS[r].name, day, time >> \notin room_usage }

\* C16: whenever a session is assigned, its classroom has the least
\* capacity among the classrooms that, just before, hold 0.8 x enrollment
\* and are free at that (day, time); of classrooms of equal capacity it is
\* the one listed first in the catalog.
C16_SmallestFreeRoom ==
  [][ Assigned =>
        LET free == FreeRoomsHolding(NewEntry.enrollment, NewEntry.day,
                                     NewEntry.time)
        IN \E c \in free :
             /\ CLASSROOMS[c].name = NewEntry.room
             /\ \A q \in free :
                  \/ CLASSROOMS[c].capacity < CLASSROOMS[q].capacity
                  \/ /\ CLASSROOMS[c].capacity = CLASSROOMS[q].capacity
                     /\ c <= q ]_vars

\* one slot holds a session in each of the two tutorial rooms, of equal
\* capacity: the later one found the first taken
C16_Witness ==
  \E i, j \in DOMAIN schedule :
    /\ i < j
    /\ schedule[i].room = "Tutorial Room A"
    /\ schedule[j].room = "Tutorial Room B"
    /\ schedule[i].day = schedule[j].day
    /\ schedule[i].time = schedule[j].time

\* the call is about to process a course of an unknown lecturer
AtRejected ==
  /\ pc = "course"
  /\ ci <= Len(courses)
  /\ courses[ci].lecturer \notin KnownLecturers

\* a record of unscheduled is about a course of a known lecturer
KnownRecord(u) == u.lecturer \in KnownLecturers

\* the second call, on the input without the rejected courses, returned
\* what the first did, less the records of the rejected courses
SameWithoutRejected ==
  (calls = 2 /\ Returned) =>
    /\ result.schedule = first_result.schedule
    /\ result.unscheduled = SelectSeq(first_result.unscheduled, KnownRecord)
    /\ "lecturer_workload" \in DOMAIN result =>
         result.lecturer_workload = first_result.lecturer_workload

\* C17: processing a course of an unknown lecturer adds one record to
\* unscheduled and changes neither schedule, nor the room, lecturer and
\* level occupancy, nor any hours_used; the run goes on with the next
\* course, and schedules the others as if that course were not in the input.
C17_RejectionFrame ==
  /\ [][ AtRejected =>
           /\ UNCHANGED << schedule, room_usage, lecturer_usage, level_usage,
                           lecturers >>
           /\ Len(unscheduled') = Len(unscheduled) + 1
           /\ SubSeq(unscheduled', 1, Len(unscheduled)) = unscheduled
           /\ ci' = ci + 1
           /\ pc' = "course" ]_vars
  /\ [] SameWithoutRejected

\* the input without a rejected course was run too, and placed sessions
C17_Witness ==
  /\ calls = 2
  /\ Scheduled
  /\ result.schedule # << >>
  /\ Len(first_result.unscheduled) > Len(result.unscheduled)
  /\ result.unscheduled # << >>

\* C18: a session is assigned to a lecturer only if, just before, the
\* lecturer's hours_used is below hours_available: no session once
\* hours_used >= hours_available, and none ever for a budget of 0.
C18_AssignedOnlyWithBudget ==
  /\ [][ Assigned =>
           lecturers[NewEntry.lecturer].hours_used
             < lecturers[NewEntry.lecturer].hours_available ]_vars
  /\ [] (\A i \in DOMAIN schedule : BudgetOf(schedule[i].lecturer) > 0)

\* a lecturer who got sessions has used up the budget while the course
\* still lacks sessions and slots remain
C18_Witness ==
  /\ InSlot
  /\ lecturers[courses[ci].lecturer].hours_used > 0
  /\ lecturers[courses[ci].lecturer].hours_used
       >= lecturers[courses[ci].lecturer].hours_available

\* the course just processed had a known lecturer and is short of sessions
JustShort ==
  /\ pc = "course"
  /\ ci > 1
  /\ courses[ci - 1].lecturer \in DOMAIN lecturers
  /\ sessions_assigned < sessions_needed

\* no session of course c can be placed in slot s as things stand
Infeasible(c, s) ==
  \/ lecturers[c.lecturer].hours_used >= lecturers[c.lecturer].hours_available
  \/ << c.lecturer, TIME_SLOTS[s][1], TIME_SLOTS[s][2] >> \in lecturer_usage
  \/ << c.level, TIME_SLOTS[s][1], TIME_SLOTS[s][2] >> \in level_usage
  \/ FreeRoomsHolding(c.enrollment, TIME_SLOTS[s][1], TIME_SLOTS[s][2]) = {}

\* C19: when a course of a known lecturer ends short of sessions, then right
\* after it is processed every slot of the catalog is infeasible for it: the
\* lecturer's budget is used up, or the lecturer or the level is occupied at
\* the slot, or no classroom holding 0.8 x enrollment is free at the slot.
C19_NoFeasibleSlotLeft ==
  JustShort =>
    \A s \in DOMAIN TIME_SLOTS : Infeasible(courses[ci - 1], s)

\* a course ended short with budget left and some sessions placed: slots,
\* not hours, ran out
C19_Witness ==
  /\ JustShort
  /\ sessions_assigned > 0
  /\ lecturers[courses[ci - 1].lecturer].hours_used
       < lecturers[courses[ci - 1].lecturer].hours_available

\* schedule entries naming a lecturer
SessionsOf(sched, nm) == { i \in DOMAIN sched : sched[i].lecturer = nm }

\* the ledger and the occupancy say what schedule says, no more and no less
LedgerConsistent ==
  /\ \A nm \in DOMAIN lecturers :
       lecturers[nm].hours_used = 2 * Cardinality(SessionsOf(schedule, nm))
  /\ room_usage = { RoomKeys(schedule)[i] : i \in DOMAIN schedule }
  /\ lecturer_usage = { LecturerKeys(schedule)[i] : i \in DOMAIN schedule }
  /\ level_usage = { LevelKeys(schedule)[i] : i \in DOMAIN schedule }
  /\ Scheduled =>
       /\ DOMAIN result.lecturer_workload = KnownLecturers
       /\ \A nm \in KnownLecturers :
            result.lecturer_workload[nm]
              = 2 * Cardinality(SessionsOf(result.schedule, nm))

\* C20: at every point of a run and in the returned output, each lecturer's
\* hours_used, returned as lecturer_workload, is 2 x the number of schedule
\* entries naming the lecturer, and the room, lecturer and level occupancy
\* hold exactly the keys of the entries of schedule; entries and occupancy
\* are only ever added.
C20_LedgerConsistency ==
  /\ [] LedgerConsistent
  /\ [][ /\ Len(schedule) <= Len(schedule')
         /\ SubSeq(schedule', 1, Len(schedule)) = schedule
         /\ room_usage \subseteq room_usage'
         /\ lecturer_usage \subseteq lecturer_usage'
         /\ level_usage \subseteq level_usage' ]_vars

\* both lecturers of the list have sessions and hours in the returned output
C20_Witness ==
  /\ Scheduled
  /\ Cardinality(KnownLecturers) = 2
  /\ \A nm \in KnownLecturers : result.lecturer_workload[nm] > 0

====
